---- MODULE Spec2Model ----
(***************************************************************************)
(* Model of the multi-threaded racing game of src/main.py: the main thread *)
(* (event loop of RacingGame.run and the handlers it calls), one worker    *)
(* thread per AI car (RacingGame.car_movement_thread), the state lock and  *)
(* the pause event.                                                        *)
(*                                                                         *)
(* Units.  Positions are kept in half pixels, so that half of a player     *)
(* step (current_speed * 1.5 * 0.5) is an integer; pygame.Rect truncates   *)
(* a position to whole pixels and GetRectX does the same.  Timers are kept *)
(* in units of 1.5 seconds.  The track and the objects on it are scaled    *)
(* down (TrackLen, CAR_WIDTH, OBSTACLE_SIZE, POWERUP_SIZE).                *)
(***************************************************************************)
EXTENDS Integers, Sequences, FiniteSets, TLC

\* ------------------------------------------------------------------------
\* Bounds of the model (scaled-down configuration)
\* ------------------------------------------------------------------------
NUM_CARS == 2
NUM_OBSTACLES == 1
NUM_POWERUPS == 1
TrackLen == 3
CAR_WIDTH == 2
OBSTACLE_SIZE == 2
POWERUP_SIZE == 2
\* Generations of car objects that may still have a live worker thread
\* besides the current one (workers that outlived a timed-out join).
MaxStale == 1
\* Obstacles and pickups on the track when one movement step is taken alone
MaxStepObstacles == 3
MaxStepPowerUps == 2

\* ------------------------------------------------------------------------
\* Program constants
\* ------------------------------------------------------------------------
START_X == 50
BASE_SPEED == 2
TRACK_LANES == NUM_CARS
FINISH_LINE_X == START_X + TrackLen

\* Python's None, and an (abstract) time stamp; both are tuples, like the
\* references to car objects and threads they are compared with
None == <<>>
Stamp == <<"time">>
Px2(n) == 2 * n

\* Bank Cur holds the car objects of self.cars; the other banks hold the car
\* objects of earlier generations that a live worker thread still refers to.
Cur == 0
Banks == Cur..(Cur + MaxStale)
CarIds == 0..(NUM_CARS - 1)
AI == 1..(NUM_CARS - 1)
Lanes == 0..(TRACK_LANES - 1)
Threads == Banks \X AI

\* random.uniform(0.8, 1.2), in halves: 2/2 = 1.0
SpeedMultipliers2 == {2}
\* elapsed time between two calls of updatePowerUps, in units of 1.5 s
Dts == {0, 1}
\* random.randint(START_X + 150, FINISH_LINE_X - 150): a band that keeps the
\* obstacles clear of a car standing on the start line
ObstacleXs == (START_X + CAR_WIDTH)..(FINISH_LINE_X - 1)
\* random.randint(START_X + 200, FINISH_LINE_X - 200)
PowerUpXs == (START_X + CAR_WIDTH)..(FINISH_LINE_X - 1)
PowerUpTypes == {"speed", "shield"}
\* random.randint(0, TRACK_LANES - 1), sampled: the layouts put the obstacle
\* and the pickup in a lane an AI car drives in; the player's car gets there
\* with DOWN.
ObstacleLanes == AI
PowerUpLanes == AI
Keys == {"RIGHT", "UP", "DOWN"}

VARIABLES
    game_state,       \* "menu", "racing", "paused", "finished"
    race_active,
    winner_declared,
    winner,           \* None or the car object <<bank, id>>
    race_start_time,  \* None or a time stamp
    pause_event,      \* TRUE when the event is set (gate open)
    state_lock,       \* None or the worker <<bank, id>> holding the lock
    cars,             \* cars[bank][id]: the car objects; bank Cur is self.cars
    thr,              \* thr[bank][id]: the thread of car object <<bank, id>>
    first_finished,   \* history: the first car to finish since the last reset
    obstacles,        \* self.obstacles
    powerups,         \* self.powerups
    mpc,              \* position of the main thread
    mj,               \* index of the car whose thread is being joined
    step_in           \* history: the input of the last isolated movement step

shared == <<game_state, race_active, winner_declared, winner, race_start_time>>
sync == <<pause_event, state_lock>>
objs == <<cars, obstacles, powerups>>
mainv == <<mpc, mj, step_in>>
vars == <<game_state, race_active, winner_declared, winner, race_start_time,
          pause_event, state_lock, cars, thr, first_finished, obstacles,
          powerups, mpc, mj, step_in>>

\* ------------------------------------------------------------------------
\* Car, Obstacle, PowerUp
\* ------------------------------------------------------------------------
NewCar(i) ==
    [x |-> Px2(START_X), lane |-> i, base_speed |-> BASE_SPEED,
     current_speed |-> BASE_SPEED, finished |-> FALSE, finish_time |-> None,
     hasSpeedBoost |-> FALSE, speedBoostTimer |-> 0,
     hasShield |-> FALSE, shieldTimer |-> 0]

NewCars == [i \in CarIds |-> NewCar(i)]

\* A thread: its position, its local move_distance, and two history flags:
\* stepped, it has committed a step since the gate was last closed, and
\* released, it was blocked on a closed gate when the stop path opened it.
NoThread == [pc |-> "none", move |-> 0, stepped |-> FALSE, released |-> FALSE]

NewThreads == [i \in AI |-> NoThread]

ObstacleLayouts ==
    [1..NUM_OBSTACLES -> [x : ObstacleXs, lane : ObstacleLanes, active : {TRUE}]]

PowerUpLayouts ==
    [1..NUM_POWERUPS ->
        [x : PowerUpXs, lane : PowerUpLanes, type : PowerUpTypes, active : {TRUE}]]

\* pygame.Rect(self.x, ...) keeps whole pixels
GetRectX(car) == car.x \div 2

\* car_rect.colliderect(o.getRectangle()): the rectangles of two objects
\* overlap vertically exactly when they are in the same lane
CollideRect(rx, lane, o, size) ==
    /\ lane = o.lane
    /\ rx < o.x + size
    /\ o.x < rx + CAR_WIDTH

\* A faulty pickup, for comparison: a speed boost doubles the speed the car
\* has.
PowerUpTypeStacking(car, type) ==
    IF type = "speed"
    THEN [car EXCEPT !.hasSpeedBoost = TRUE, !.speedBoostTimer = 1,
                     !.current_speed = car.current_speed * 2]
    ELSE IF type = "shield"
    THEN [car EXCEPT !.hasShield = TRUE, !.shieldTimer = 2]
    ELSE car

PowerUpType(car, type) ==
    IF type = "speed"
    THEN [car EXCEPT !.hasSpeedBoost = TRUE, !.speedBoostTimer = 1,
                     !.current_speed = car.base_speed * 2]
    ELSE IF type = "shield"
    THEN [car EXCEPT !.hasShield = TRUE, !.shieldTimer = 2]
    ELSE car

UpdateSpeedBoost(car, dt) ==
    IF car.hasSpeedBoost
    THEN IF car.speedBoostTimer - dt <= 0
         THEN [car EXCEPT !.speedBoostTimer = car.speedBoostTimer - dt,
                          !.hasSpeedBoost = FALSE,
                          !.current_speed = car.base_speed]
         ELSE [car EXCEPT !.speedBoostTimer = car.speedBoostTimer - dt]
    ELSE car

UpdateShield(car, dt) ==
    IF car.hasShield
    THEN IF car.shieldTimer - dt <= 0
         THEN [car EXCEPT !.shieldTimer = car.shieldTimer - dt,
                          !.hasShield = FALSE]
         ELSE [car EXCEPT !.shieldTimer = car.shieldTimer - dt]
    ELSE car

UpdatePowerUps(car, dt) == UpdateShield(UpdateSpeedBoost(car, dt), dt)

\* ------------------------------------------------------------------------
\* One movement step inside the critical section
\* ------------------------------------------------------------------------
\* A collision test that forgets the active flag, for comparison
IgnoresActive(o) == TRUE

\* if obstacle.active and ... / if powerup.active and ...
IsActive(o) == o.active

\* for obstacle in self.obstacles: ... (car_rect was taken before the loop)
RECURSIVE HitObstacles(_, _, _, _, _, _)
HitObstacles(car, rx, lane, move, obs, k) ==
    IF k > Len(obs) THEN [car |-> car, obstacles |-> obs]
    ELSE IF IsActive(obs[k]) /\ CollideRect(rx, lane, obs[k], OBSTACLE_SIZE)
    THEN HitObstacles(
            IF ~car.hasShield THEN [car EXCEPT !.x = car.x - (move \div 2)]
                              ELSE car,
            rx, lane, move, [obs EXCEPT ![k].active = FALSE], k + 1)
    ELSE HitObstacles(car, rx, lane, move, obs, k + 1)

\* for powerup in self.powerups: ...
RECURSIVE HitPowerUps(_, _, _, _, _)
HitPowerUps(car, rx, lane, pws, k) ==
    IF k > Len(pws) THEN [car |-> car, powerups |-> pws]
    ELSE IF IsActive(pws[k]) /\ CollideRect(rx, lane, pws[k], POWERUP_SIZE)
    THEN HitPowerUps(PowerUpType(car, pws[k].type), rx, lane,
                     [pws EXCEPT ![k].active = FALSE], k + 1)
    ELSE HitPowerUps(car, rx, lane, pws, k + 1)

\* car.x += move_distance, then the two collision loops
MoveCar(car, move, obs, pws) ==
    LET moved == [car EXCEPT !.x = car.x + move]
        rx == GetRectX(moved)
        a == HitObstacles(moved, rx, moved.lane, move, obs, 1)
        b == HitPowerUps(a.car, rx, moved.lane, pws, 1)
    IN  [car |-> b.car, obstacles |-> a.obstacles, powerups |-> b.powerups]

ReachedFinish(car) == car.x >= Px2(FINISH_LINE_X) /\ ~car.finished

\* ------------------------------------------------------------------------
\* Initial state: RacingGame.__init__
\* ------------------------------------------------------------------------
Init ==
    /\ game_state = "menu"
    /\ race_active = FALSE
    /\ winner_declared = FALSE
    /\ winner = None
    /\ race_start_time = None
    /\ pause_event = TRUE
    /\ state_lock = None
    /\ cars = [b \in Banks |-> NewCars]
    /\ thr = [b \in Banks |-> NewThreads]
    /\ first_finished = None
    /\ obstacles \in ObstacleLayouts
    /\ powerups \in PowerUpLayouts
    /\ mpc = "idle"
    /\ mj = 0
    /\ step_in = None

Alive(t) == t.pc \notin {"none", "dead"}

Dead == [pc |-> "dead", move |-> 0, stepped |-> FALSE, released |-> FALSE]

\* A car object of an earlier generation is unreachable once its thread has
\* ended, unless it is the winner w: it is reclaimed (its slot is cleared);
\* the history keeps it too while f, the first car to finish, names it.
Reclaimed(b, i, w, f) == b # Cur /\ w # <<b, i>> /\ f # <<b, i>>

CarAtEnd(b, i, car, w, f) == IF Reclaimed(b, i, w, f) THEN NewCar(i) ELSE car

ThreadAtEnd(b, i, w, f) == IF Reclaimed(b, i, w, f) THEN NoThread ELSE Dead

\* ------------------------------------------------------------------------
\* Worker thread of car object <<b, i>>: car_movement_thread
\* ------------------------------------------------------------------------
\* while self.race_active and not car.finished (after the throttle sleep)
WorkerLoop(b, i) ==
    /\ thr[b][i].pc = "loop"
    /\ IF race_active /\ ~cars[b][i].finished
       THEN /\ thr' = [thr EXCEPT ![b][i].pc = "wait"]
            /\ UNCHANGED cars
       ELSE /\ thr' = [thr EXCEPT ![b][i] = ThreadAtEnd(b, i, winner, first_finished)]
            /\ cars' = [cars EXCEPT ![b][i] = CarAtEnd(b, i, @, winner, first_finished)]
    /\ UNCHANGED <<shared, sync, first_finished, obstacles, powerups, mainv>>

\* Two faulty barriers, for comparison: a wait that returns whatever the
\* flag is, and a wait that returns only while the phase is racing.
EventWaitIgnoresGate == TRUE

EventWaitWhileRacing == pause_event /\ game_state = "racing"

\* A third faulty barrier, for comparison: a wait that stops returning once
\* a winner has been declared.
EventWaitUntilWinner == pause_event /\ ~winner_declared

\* threading.Event.wait() returns when the flag is set
EventWaitReturns == pause_event

\* self.pause_event.wait(); car.updatePowerUps(dt); move_distance = ...
WorkerWait(b, i) ==
    /\ thr[b][i].pc = "wait"
    /\ EventWaitReturns
    /\ \E dt \in Dts, m \in SpeedMultipliers2 :
         LET c == UpdatePowerUps(cars[b][i], dt)
         IN  /\ cars' = [cars EXCEPT ![b][i] = c]
             /\ thr' = [thr EXCEPT ![b][i].pc = "acq",
                                    ![b][i].move = (Px2(c.current_speed) * m) \div 2]
    /\ UNCHANGED <<shared, sync, first_finished, obstacles, powerups, mainv>>

\* A worker without the re-check, for comparison
NoRecheck == TRUE

\* if not self.race_active: break (negated: the worker goes on)
RaceActiveRecheck == race_active

\* with self.state_lock: if not self.race_active: break
WorkerAcquire(b, i) ==
    /\ thr[b][i].pc = "acq"
    /\ state_lock = None
    /\ IF RaceActiveRecheck
       THEN /\ state_lock' = <<b, i>>
            /\ thr' = [thr EXCEPT ![b][i].pc = "crit"]
            /\ UNCHANGED cars
       ELSE /\ state_lock' = None
            /\ thr' = [thr EXCEPT ![b][i] = ThreadAtEnd(b, i, winner, first_finished)]
            /\ cars' = [cars EXCEPT ![b][i] = CarAtEnd(b, i, @, winner, first_finished)]
    /\ UNCHANGED <<shared, pause_event, first_finished, obstacles, powerups,
                   mainv>>

\* A faulty arbitration, for comparison: every car that finishes takes the
\* winner.
AlwaysNotDeclared == TRUE

\* if not self.winner_declared:
NotDeclared == ~winner_declared

\* the thread goes round its loop again (history: it has committed a step)
Looping(t) ==
    [t EXCEPT !.pc = "loop", !.move = 0, !.stepped = ~pause_event,
              !.released = FALSE]

\* the rest of the critical section, the release of the lock and the sleep
WorkerStep(b, i) ==
    /\ thr[b][i].pc = "crit"
    /\ state_lock = <<b, i>>
    /\ LET r == MoveCar(cars[b][i], thr[b][i].move, obstacles, powerups)
       IN  /\ obstacles' = r.obstacles
           /\ powerups' = r.powerups
           /\ IF ~ReachedFinish(r.car)
              THEN /\ cars' = [cars EXCEPT ![b][i] = r.car]
                   /\ thr' = [thr EXCEPT ![b][i] = Looping(@)]
                   /\ UNCHANGED <<winner_declared, winner, game_state,
                                  first_finished>>
              ELSE /\ first_finished' =
                        IF first_finished = None THEN <<b, i>> ELSE first_finished
                   /\ IF race_start_time = None
                      THEN \* time.time() - None raises TypeError: the thread dies
                           /\ cars' = [cars EXCEPT ![b][i] =
                                CarAtEnd(b, i, [r.car EXCEPT !.finished = TRUE],
                                         winner, first_finished')]
                           /\ thr' = [thr EXCEPT ![b][i] =
                                ThreadAtEnd(b, i, winner, first_finished')]
                           /\ UNCHANGED <<winner_declared, winner, game_state>>
                      ELSE /\ cars' = [cars EXCEPT ![b][i] =
                                         [r.car EXCEPT !.finished = TRUE,
                                                       !.finish_time = Stamp]]
                           /\ thr' = [thr EXCEPT ![b][i] = Looping(@)]
                           /\ IF NotDeclared
                              THEN /\ winner_declared' = TRUE
                                   /\ winner' = <<b, i>>
                                   /\ game_state' = "finished"
                              ELSE UNCHANGED <<winner_declared, winner,
                                               game_state>>
    /\ state_lock' = None
    /\ UNCHANGED <<race_active, race_start_time, pause_event, mainv>>

Worker(b, i) ==
    \/ WorkerLoop(b, i)
    \/ WorkerWait(b, i)
    \/ WorkerAcquire(b, i)
    \/ WorkerStep(b, i)

\* ------------------------------------------------------------------------
\* Main thread: the event loop of run() and the handlers it calls
\* ------------------------------------------------------------------------
\* History kept with pause_event.set(): no thread has committed a step
\* since the gate was closed.
GateOpened(t) ==
    [b \in Banks |-> [i \in AI |-> [t[b][i] EXCEPT !.stepped = FALSE]]]

\* K_SPACE while self.game_state == "menu": start_race() is entered and
\* runs self.game_state = "racing"
StartRaceState ==
    /\ mpc = "idle"
    /\ game_state = "menu"
    /\ game_state' = "racing"
    /\ mpc' = "start_active"
    /\ UNCHANGED <<race_active, winner_declared, winner, race_start_time,
                   sync, objs, thr, first_finished, mj, step_in>>

\* self.race_active = True
StartRaceActive ==
    /\ mpc = "start_active"
    /\ race_active' = TRUE
    /\ mpc' = "start_declared"
    /\ UNCHANGED <<game_state, winner_declared, winner, race_start_time,
                   sync, objs, thr, first_finished, mj, step_in>>

\* self.winner_declared = False
StartRaceDeclared ==
    /\ mpc = "start_declared"
    /\ winner_declared' = FALSE
    /\ mpc' = "start_time"
    /\ UNCHANGED <<game_state, race_active, winner, race_start_time,
                   sync, objs, thr, first_finished, mj, step_in>>

\* self.race_start_time = time.time()
StartRaceTime ==
    /\ mpc = "start_time"
    /\ race_start_time' = Stamp
    /\ mpc' = "start_event"
    /\ UNCHANGED <<game_state, race_active, winner_declared, winner,
                   sync, objs, thr, first_finished, mj, step_in>>

\* self.pause_event.set()
StartRaceEvent ==
    /\ mpc = "start_event"
    /\ pause_event' = TRUE
    /\ thr' = GateOpened(thr)
    /\ mpc' = "start_spawn"
    /\ UNCHANGED <<shared, state_lock, objs, first_finished, mj, step_in>>

\* for car in self.cars: if not car.is_player: car.thread = Thread(...).start()
StartRaceSpawn ==
    /\ mpc = "start_spawn"
    /\ thr' = [thr EXCEPT ![Cur] = [i \in AI |-> [NoThread EXCEPT !.pc = "loop"]]]
    /\ mpc' = "idle"
    /\ UNCHANGED <<shared, sync, objs, first_finished, mj, step_in>>

\* K_p: toggle_pause() is entered
CallTogglePause ==
    /\ mpc = "idle"
    /\ mpc' = "toggle_check"
    /\ UNCHANGED <<shared, sync, objs, thr, first_finished, mj, step_in>>

\* toggle_pause without its outer test of the phase
TogglePauseNoGuard == TRUE

\* if self.game_state == "racing":
TogglePauseGuard == game_state = "racing"

TogglePauseCheck ==
    /\ mpc = "toggle_check"
    /\ mpc' = IF TogglePauseGuard THEN "toggle_event" ELSE "idle"
    /\ UNCHANGED <<shared, sync, objs, thr, first_finished, mj, step_in>>

\* if self.pause_event.is_set(): clear() else: set()
TogglePauseEvent ==
    /\ mpc = "toggle_event"
    /\ IF pause_event
       THEN /\ pause_event' = FALSE
            /\ mpc' = "toggle_paused"
            /\ UNCHANGED thr
       ELSE /\ pause_event' = TRUE
            /\ mpc' = "toggle_racing"
            /\ thr' = GateOpened(thr)
    /\ UNCHANGED <<shared, state_lock, objs, first_finished, mj, step_in>>

\* self.game_state = "paused" / self.game_state = "racing"
TogglePauseState ==
    /\ mpc \in {"toggle_paused", "toggle_racing"}
    /\ game_state' = IF mpc = "toggle_paused" THEN "paused" ELSE "racing"
    /\ mpc' = "idle"
    /\ UNCHANGED <<race_active, winner_declared, winner, race_start_time,
                   sync, objs, thr, first_finished, mj, step_in>>

\* K_r: reset_game() is entered, or pygame.QUIT: the loop of run() is left.
\* Both run the same statements up to the end of the joins (lines 295-301
\* and 643-648); which of the two it was shows in what follows the joins.
\* self.race_active = False
StopActive ==
    /\ mpc = "idle"
    /\ race_active' = FALSE
    /\ mpc' = "stop_event"
    /\ UNCHANGED <<game_state, winner_declared, winner, race_start_time,
                   sync, objs, thr, first_finished, mj, step_in>>

\* self.pause_event.set(); the join loop starts at the first car that has
\* a thread (the player's car has none)
StopEvent ==
    /\ mpc = "stop_event"
    /\ pause_event' = TRUE
    /\ thr' = [b \in Banks |-> [i \in AI |->
                 [thr[b][i] EXCEPT
                    !.stepped = FALSE,
                    !.released = @ \/ (thr[b][i].pc = "wait" /\ ~pause_event)]]]
    /\ mpc' = "join"
    /\ mj' = 1
    /\ UNCHANGED <<shared, state_lock, objs, first_finished, step_in>>

BankFree(b) == \A i \in AI : ~Alive(thr[b][i])

\* A worker that outlives its join keeps its car object: the model has room
\* for MaxStale generations of such objects besides the current one.
CanOutlive == \E b \in Banks \ {Cur} : BankFree(b)

\* where the main thread is once the joins are over, whether or not every
\* worker has ended
AfterJoin == "joined"

JoinNext ==
    /\ mj' = IF mj + 1 \in AI THEN mj + 1 ELSE 0
    /\ mpc' = IF mj + 1 \in AI THEN "join" ELSE AfterJoin

\* if car.thread and car.thread.is_alive(): false, or join() returned
\* because the thread has ended
JoinReturns ==
    /\ mpc = "join"
    /\ ~Alive(thr[Cur][mj])
    /\ JoinNext
    /\ UNCHANGED <<shared, sync, objs, thr, first_finished, step_in>>

\* car.thread.join(timeout=1.0) returns with the thread still alive
JoinTimeout ==
    /\ mpc = "join"
    /\ Alive(thr[Cur][mj])
    /\ CanOutlive
    /\ JoinNext
    /\ UNCHANGED <<shared, sync, objs, thr, first_finished, step_in>>

\* the daemon threads end with the process
KillAll ==
    [b \in Banks |-> [i \in AI |->
        IF thr[b][i].pc = "none" THEN NoThread ELSE Dead]]

\* pygame.quit(); sys.exit()
Exit ==
    /\ mpc = "joined"
    /\ mpc' = "exited"
    /\ thr' = KillAll
    /\ state_lock' = None
    /\ UNCHANGED <<shared, pause_event, objs, first_finished, mj, step_in>>

\* The bank that keeps the car objects of self.cars whose threads are still
\* alive when initialize_game_objects() replaces self.cars: the first free one.
StaleBank ==
    CHOOSE b \in Banks \ {Cur} :
        /\ BankFree(b)
        /\ \A c \in Banks \ {Cur} : BankFree(c) => b <= c

\* with self.state_lock: winner_declared = False; winner = None;
\* race_start_time = None; race_time = 0; initialize_game_objects()
ResetLocked ==
    /\ mpc = "joined"
    /\ state_lock = None
    /\ winner_declared' = FALSE
    /\ winner' = None
    /\ race_start_time' = None
    /\ first_finished' = None
    /\ cars' = [b \in Banks |-> [i \in CarIds |->
                  IF b = Cur THEN NewCar(i)
                  ELSE IF i \in AI /\ Alive(thr[b][i]) THEN cars[b][i]
                  ELSE IF ~BankFree(Cur) /\ b = StaleBank
                          /\ i \in AI /\ Alive(thr[Cur][i])
                  THEN cars[Cur][i]
                  ELSE NewCar(i)]]
    /\ thr' = [b \in Banks |-> [i \in AI |->
                 IF b = Cur THEN NoThread
                 ELSE IF Alive(thr[b][i]) THEN thr[b][i]
                 ELSE IF ~BankFree(Cur) /\ b = StaleBank /\ Alive(thr[Cur][i])
                 THEN thr[Cur][i]
                 ELSE NoThread]]
    /\ obstacles' \in ObstacleLayouts
    /\ powerups' \in PowerUpLayouts
    /\ mpc' = "reset_menu"
    /\ UNCHANGED <<game_state, race_active, sync, mj, step_in>>

\* A faulty return, for comparison: reset_game returns without setting the
\* phase.
ResetKeepsPhase ==
    /\ mpc = "reset_menu"
    /\ mpc' = "idle"
    /\ UNCHANGED <<shared, sync, objs, thr, first_finished, mj, step_in>>

\* self.game_state = "menu"
ResetMenu ==
    /\ mpc = "reset_menu"
    /\ game_state' = "menu"
    /\ mpc' = "idle"
    /\ UNCHANGED <<race_active, winner_declared, winner, race_start_time,
                   sync, objs, thr, first_finished, mj, step_in>>

\* if self.game_state != "racing" or not self.race_active: return
PlayerInputGuard == game_state = "racing" /\ race_active

\* handle_player_input() is entered (every frame): the two early returns
\* and updatePowerUps(dt)
PlayerCheck ==
    /\ mpc = "idle"
    /\ IF PlayerInputGuard /\ ~cars[Cur][0].finished
       THEN \E dt \in Dts :
               /\ cars' = [cars EXCEPT ![Cur][0] = UpdatePowerUps(@, dt)]
               /\ mpc' = "player_lock"
       ELSE /\ mpc' = "idle"
            /\ UNCHANGED cars
    /\ UNCHANGED <<shared, sync, obstacles, powerups, thr, first_finished, mj,
                   step_in>>

\* Lane switching: runs after the forward movement, finished or not
SwitchLanes(car, keys) ==
    LET up == IF "UP" \in keys /\ car.lane > 0
              THEN [car EXCEPT !.lane = car.lane - 1] ELSE car
    IN  IF "DOWN" \in keys /\ up.lane < TRACK_LANES - 1
        THEN [up EXCEPT !.lane = up.lane + 1] ELSE up

\* with self.state_lock: the whole critical section of handle_player_input;
\* mkeys is what pygame.key.get_pressed() returned
PlayerStep ==
    /\ mpc = "player_lock"
    /\ state_lock = None
    /\ \E mkeys \in SUBSET Keys :
       LET car == cars[Cur][0]
           r == IF "RIGHT" \in mkeys
                THEN MoveCar(car, car.current_speed * 3, obstacles, powerups)
                ELSE [car |-> car, obstacles |-> obstacles, powerups |-> powerups]
           fin == "RIGHT" \in mkeys /\ ReachedFinish(r.car)
       IN  /\ obstacles' = r.obstacles
           /\ powerups' = r.powerups
           /\ IF ~fin
              THEN /\ cars' = [cars EXCEPT ![Cur][0] = SwitchLanes(r.car, mkeys)]
                   /\ mpc' = "idle"
                   /\ UNCHANGED <<winner_declared, winner, game_state, thr,
                                  first_finished>>
              ELSE /\ first_finished' =
                        IF first_finished = None THEN <<Cur, 0>> ELSE first_finished
                   /\ IF race_start_time = None
                      THEN \* TypeError in the main thread: the process ends
                           /\ cars' = [cars EXCEPT ![Cur][0] =
                                         [r.car EXCEPT !.finished = TRUE]]
                           /\ mpc' = "exited"
                           /\ thr' = KillAll
                           /\ UNCHANGED <<winner_declared, winner, game_state>>
                      ELSE /\ cars' = [cars EXCEPT ![Cur][0] =
                                SwitchLanes([r.car EXCEPT !.finished = TRUE,
                                                !.finish_time = Stamp], mkeys)]
                           /\ mpc' = "idle"
                           /\ UNCHANGED thr
                           /\ IF NotDeclared
                              THEN /\ winner_declared' = TRUE
                                   /\ winner' = <<Cur, 0>>
                                   /\ game_state' = "finished"
                              ELSE UNCHANGED <<winner_declared, winner,
                                               game_state>>
    /\ UNCHANGED <<race_active, race_start_time, sync, mj, step_in>>

Main ==
    \/ StartRaceState \/ StartRaceActive \/ StartRaceDeclared
    \/ StartRaceTime \/ StartRaceEvent \/ StartRaceSpawn
    \/ CallTogglePause \/ TogglePauseCheck \/ TogglePauseEvent
    \/ TogglePauseState
    \/ StopActive \/ StopEvent
    \/ JoinReturns \/ JoinTimeout \/ Exit
    \/ ResetLocked \/ ResetMenu
    \/ PlayerCheck \/ PlayerStep

Next == Main \/ \E b \in Banks, i \in AI : Worker(b, i)

Spec == Init /\ [][Next]_vars

\* Every live thread is scheduled again and again, and the main thread goes
\* on with the handler it is in (the user's commands are not forced).
MainInHandler == mpc # "idle" /\ Main

FairSpec ==
    /\ Spec
    /\ \A b \in Banks, i \in AI : WF_vars(Worker(b, i))
    /\ WF_vars(MainInHandler)

\* ------------------------------------------------------------------------
\* One movement step taken alone: the inputs of the step (the car, the
\* obstacles and the pickups) are drawn from bounded sets, and the actions
\* apply updatePowerUps and the movement of the two critical sections.
\* ------------------------------------------------------------------------
\* Status effects a car can carry into a step
StepEffects ==
    {e \in [hasSpeedBoost : BOOLEAN, speedBoostTimer : 0..1,
            hasShield : BOOLEAN, shieldTimer : 0..2] :
        /\ e.hasSpeedBoost <=> e.speedBoostTimer > 0
        /\ e.hasShield <=> e.shieldTimer > 0}

StepCar(i, e) ==
    [NewCar(i) EXCEPT !.hasSpeedBoost = e.hasSpeedBoost,
                      !.speedBoostTimer = e.speedBoostTimer,
                      !.current_speed = IF e.hasSpeedBoost THEN 2 * BASE_SPEED
                                        ELSE BASE_SPEED,
                      !.hasShield = e.hasShield,
                      !.shieldTimer = e.shieldTimer]

\* one place a car reaches with its first step, and one it reaches later
StepObstacleXs == {START_X + CAR_WIDTH, START_X + CAR_WIDTH + 3}
StepPowerUpXs == StepObstacleXs

StepObstacleLayouts ==
    [1..MaxStepObstacles -> [x : StepObstacleXs, lane : Lanes, active : {TRUE}]]

StepPowerUpLayouts ==
    [1..MaxStepPowerUps ->
        [x : StepPowerUpXs, lane : Lanes, type : PowerUpTypes, active : {TRUE}]]

StepInit ==
    /\ game_state = "racing"
    /\ race_active = TRUE
    /\ winner_declared = FALSE
    /\ winner = None
    /\ race_start_time = Stamp
    /\ pause_event = TRUE
    /\ state_lock = None
    /\ \E e \in StepEffects :
          cars = [b \in Banks |-> [i \in CarIds |->
                    IF b = Cur THEN StepCar(i, e) ELSE NewCar(i)]]
    /\ thr = [b \in Banks |-> NewThreads]
    /\ first_finished = None
    /\ obstacles \in StepObstacleLayouts
    /\ powerups \in StepPowerUpLayouts
    /\ mpc = "step"
    /\ mj = 0
    /\ step_in = None

StepFrame ==
    UNCHANGED <<shared, sync, thr, first_finished, mj>>

\* car.updatePowerUps(dt), which both loops run before the movement
StepTimers ==
    /\ mpc = "step"
    /\ \E i \in CarIds, dt \in Dts :
          cars' = [cars EXCEPT ![Cur][i] = UpdatePowerUps(@, dt)]
    /\ UNCHANGED <<obstacles, powerups, mpc, step_in>>
    /\ StepFrame

\* The movement of car i by move: car.x += move_distance and the collision
\* loops; step_in keeps what the step started from.
StepMove(i, move) ==
    LET r == MoveCar(cars[Cur][i], move, obstacles, powerups)
    IN  /\ mpc = "step"
        /\ step_in' = [id |-> i, car |-> cars[Cur][i], move |-> move,
                       obstacles |-> obstacles, powerups |-> powerups]
        /\ cars' = [cars EXCEPT ![Cur][i] = r.car]
        /\ obstacles' = r.obstacles
        /\ powerups' = r.powerups
        /\ mpc' = "stepped"
        /\ StepFrame

\* the step of an AI worker (lines 369-393)
StepWorker ==
    \E i \in AI, m \in SpeedMultipliers2 :
        StepMove(i, (Px2(cars[Cur][i].current_speed) * m) \div 2)

\* the forward movement of the player (lines 434-448)
StepPlayer == StepMove(0, cars[Cur][0].current_speed * 3)

StepNext == StepTimers \/ StepWorker \/ StepPlayer

StepSpec == StepInit /\ [][StepNext]_vars

\* ------------------------------------------------------------------------
\* Claims
\* ------------------------------------------------------------------------
\* The step of the main thread that leaves position p
MainLeaves(p) == mpc = p /\ mpc' # p

\* C1: within one race the winner is assigned at most once: once winner is
\* not None it refers to the same car until reset_game clears it.
C1_WinnerAssignedOnce ==
    [][winner # None /\ winner' # winner
          => winner' = None /\ (MainLeaves("joined") /\ mpc' = "reset_menu")]_vars

C1_Witness ==
    /\ winner # None
    /\ \E i \in CarIds :
          /\ winner # <<Cur, i>>
          /\ cars[Cur][i].finished
          /\ cars[Cur][i].finish_time # None

\* C2: the winner is the first car of the race to finish, and every car
\* that has finished has a finish_time (the car that loses the arbitration
\* is finished, timed, and not the winner).
C2_WinnerIsFirstToFinish ==
    /\ winner = first_finished
    /\ \A b \in Banks, i \in CarIds :
          cars[b][i].finished => cars[b][i].finish_time # None

\* C3: in every reachable state, game_state = "finished" implies that
\* winner is not None (the states inside reset_game included).
C3_FinishedHasWinner == game_state = "finished" => winner # None

\* C4: toggle_pause flips the gate and the phase in either direction: a call
\* made while racing goes on to close the gate and returns with the phase
\* paused; a call made while paused returns with the gate open and the
\* phase racing.
C4_ToggleFlipsBothWays ==
    [][/\ (MainLeaves("toggle_check") /\ game_state = "racing")
            => mpc' = "toggle_event"
       /\ (MainLeaves("toggle_event") /\ pause_event)
            => ~pause_event' /\ mpc' = "toggle_paused"
       /\ MainLeaves("toggle_paused") => game_state' = "paused"
       /\ (MainLeaves("toggle_check") /\ game_state = "paused" /\ mpc' = "idle")
            => pause_event' /\ game_state' = "racing"]_vars

\* C5: toggle_pause called while the phase is menu or finished returns
\* without changing the gate, the phase, race_active, the winner or any
\* car, obstacle or pickup.
C5_ToggleOutsideRaceIsNoOp ==
    [][(MainLeaves("toggle_check") /\ game_state \in {"menu", "finished"})
          => /\ mpc' = "idle"
             /\ UNCHANGED <<shared, sync, objs, thr, first_finished>>]_vars

C5_Witness ==
    /\ mpc = "toggle_check"
    /\ game_state = "finished"
    /\ ~pause_event

\* C6: a step of handle_player_input taken while the phase is not racing,
\* race_active is false or the player's car has finished changes neither
\* the player's car nor any obstacle or pickup nor the winner.
C6_PlayerInputOutsideRaceIsNoOp ==
    [][(MainLeaves("player_lock")
           /\ (game_state # "racing" \/ ~race_active \/ cars[Cur][0].finished))
          => UNCHANGED <<cars[Cur][0], obstacles, powerups, winner>>]_vars

\* C7: no lost wakeup: a worker that is in pause_event.wait() while the
\* gate is open leaves the wait, unless the gate is closed again first.
C7_NoLostWakeup ==
    \A b \in Banks, i \in AI :
        (thr[b][i].pc = "wait" /\ pause_event)
            ~> (thr[b][i].pc # "wait" \/ ~pause_event)

C7_Witness ==
    \E b \in Banks, i \in AI :
        thr[b][i].pc = "wait" /\ thr[b][i].released /\ pause_event

\* The step by which worker <<b, i>> passes the barrier, and the step by
\* which it commits its movement (the main thread does not move in either).
Passes(b, i) == thr[b][i].pc = "wait" /\ thr'[b][i].pc = "acq"

Commits(b, i) ==
    thr[b][i].pc = "crit" /\ thr'[b][i].pc # "crit" /\ mpc' = mpc

\* C8: no worker passes the barrier while the gate is closed, and a worker
\* that commits a step while the gate is closed has committed no other
\* step since the gate was closed.
C8_ClosedGateHoldsWorkers ==
    [][\A b \in Banks, i \in AI :
          /\ Passes(b, i) => pause_event
          /\ (Commits(b, i) /\ ~pause_event) => ~thr[b][i].stepped]_vars

C8_Witness ==
    /\ ~pause_event
    /\ \E b \in Banks, i \in AI : thr[b][i].pc = "wait" /\ thr[b][i].stepped

\* C9: a worker that was blocked on the closed gate when reset_game or the
\* shutdown path opened it does not enter its critical section again: it
\* is in the wait, at the lock, or it has ended.
C9_ReleasedWorkerExits ==
    \A b \in Banks, i \in AI :
        thr[b][i].released => thr[b][i].pc \in {"wait", "acq"}

\* C10: reset_game does not go on to re-initialize the cars, obstacles,
\* pickups and the winner while a worker it failed to join is alive.
C10_NoResetWithLiveWorker ==
    [][(MainLeaves("joined") /\ mpc' = "reset_menu") => BankFree(Cur)]_vars

\* C11: no worker spawned by an earlier start_race (a worker whose car
\* object reset_game has replaced) is inside its critical section, holding
\* the state lock.
C11_NoOldWorkerInCriticalSection ==
    \A b \in Banks \ {Cur}, i \in AI : thr[b][i].pc # "crit"

\* A movement step taken alone has been applied; the car as it is now; the
\* x of car_rect, taken after car.x += move_distance; the obstacles and
\* pickups that were active and overlapped car_rect.
StepDone == mpc = "stepped"

StepCarNow == cars[Cur][step_in.id]

StepRectX == GetRectX([step_in.car EXCEPT !.x = @ + step_in.move])

StepHitsObstacle(k) ==
    /\ step_in.obstacles[k].active
    /\ CollideRect(StepRectX, step_in.car.lane, step_in.obstacles[k],
                   OBSTACLE_SIZE)

StepHitsPowerUp(k) ==
    /\ step_in.powerups[k].active
    /\ CollideRect(StepRectX, step_in.car.lane, step_in.powerups[k],
                   POWERUP_SIZE)

\* C12: after a step that overlapped an active obstacle, every overlapped
\* obstacle is inactive, a shielded car has advanced by the whole
\* move_distance and an unshielded car by exactly half of it, whatever the
\* number and placement of the obstacles.
C12_ObstacleCostsHalfStep ==
    (StepDone /\ \E k \in DOMAIN step_in.obstacles : StepHitsObstacle(k))
        => /\ \A k \in DOMAIN obstacles :
                 StepHitsObstacle(k) => ~obstacles[k].active
           /\ IF step_in.car.hasShield
              THEN StepCarNow.x = step_in.car.x + step_in.move
              ELSE 2 * (StepCarNow.x - step_in.car.x) = step_in.move

\* The bounding regions of two cars overlap: same lane, and rectangles of
\* width CAR_WIDTH that intersect.
Overlap(c, d) ==
    /\ c.lane = d.lane
    /\ GetRectX(c) < GetRectX(d) + CAR_WIDTH
    /\ GetRectX(d) < GetRectX(c) + CAR_WIDTH

\* C13: a step that moves a car of self.cars forward leaves it overlapping
\* no other car of self.cars in its lane (a step that would do so is
\* rejected).
C13_NoOverlapAfterStep ==
    [][\A i \in CarIds :
          cars'[Cur][i].x > cars[Cur][i].x
              => \A j \in CarIds \ {i} :
                     ~Overlap(cars'[Cur][i], cars'[Cur][j])]_vars

\* C14: a step that overlapped an active pickup leaves the pickup inactive
\* and the car with the effect applied afresh: a speed pickup with the boost
\* flag set, the full boost duration and twice the base speed, a shield
\* pickup with the shield flag set and the full shield duration; and the
\* speed of a car is always its base speed or twice its base speed.
C14_PickupAppliedWithoutStacking ==
    /\ \A i \in CarIds :
          cars[Cur][i].current_speed
              \in {cars[Cur][i].base_speed, 2 * cars[Cur][i].base_speed}
    /\ StepDone =>
          \A k \in DOMAIN step_in.powerups :
              StepHitsPowerUp(k) =>
                  /\ ~powerups[k].active
                  /\ step_in.powerups[k].type = "speed" =>
                        /\ StepCarNow.hasSpeedBoost
                        /\ StepCarNow.speedBoostTimer = 1
                        /\ StepCarNow.current_speed = 2 * StepCarNow.base_speed
                  /\ step_in.powerups[k].type = "shield" =>
                        /\ StepCarNow.hasShield
                        /\ StepCarNow.shieldTimer = 2

C14_Witness ==
    /\ StepDone
    /\ step_in.car.hasSpeedBoost
    /\ \E k \in DOMAIN step_in.powerups :
          StepHitsPowerUp(k) /\ step_in.powerups[k].type = "speed"

\* The shape of a freshly reset game
ResetShape ==
    /\ \A i \in CarIds :
          /\ cars[Cur][i].x = Px2(START_X)
          /\ cars[Cur][i].lane = i
          /\ ~cars[Cur][i].finished
          /\ cars[Cur][i].finish_time = None
          /\ ~cars[Cur][i].hasSpeedBoost
          /\ ~cars[Cur][i].hasShield
          /\ cars[Cur][i].current_speed = cars[Cur][i].base_speed
    /\ Len(obstacles) = NUM_OBSTACLES
    /\ \A k \in DOMAIN obstacles : obstacles[k].active
    /\ Len(powerups) = NUM_POWERUPS
    /\ \A k \in DOMAIN powerups : powerups[k].active
    /\ winner = None
    /\ ~winner_declared
    /\ ~race_active
    /\ pause_event
    /\ game_state = "menu"

\* C15: whenever reset_game returns, whatever the state it was called in
\* (a second call in succession included), the game has the shape of a
\* freshly reset game.
C15_ResetGivesInitialShape ==
    [][MainLeaves("reset_menu") => ResetShape']_vars

\* reset_game has returned from a call made while a worker was still alive
\* (its join timed out), and no race has been started since
C15_Witness ==
    /\ mpc = "idle"
    /\ game_state = "menu"
    /\ ResetShape
    /\ \E b \in Banks \ {Cur}, i \in AI : Alive(thr[b][i])

\* The step by which worker <<b, i>> takes the state lock
TakesLock(b, i) ==
    thr[b][i].pc = "acq" /\ thr'[b][i].pc # "acq" /\ mpc' = mpc

Status(c) ==
    <<c.x, c.lane, c.current_speed, c.hasSpeedBoost, c.hasShield, c.finished>>

\* The steps taken by a thread that holds state_lock: the critical section
\* of a worker, of handle_player_input and of reset_game
LockedStep ==
    \/ \E b \in Banks, i \in AI : Commits(b, i)
    \/ MainLeaves("player_lock")
    \/ MainLeaves("joined") /\ mpc' = "reset_menu"

\* C17: every step that writes the position or status of a car of
\* self.cars, the active flag of an obstacle or pickup, or game_state,
\* winner, winner_declared or race_start_time is taken by a thread that
\* holds state_lock.
C17_WritesHoldLock ==
    [][(\/ <<game_state, winner, winner_declared, race_start_time>>'
              # <<game_state, winner, winner_declared, race_start_time>>
        \/ obstacles' # obstacles
        \/ powerups' # powerups
        \/ \E i \in CarIds : Status(cars'[Cur][i]) # Status(cars[Cur][i]))
          => LockedStep]_vars

\* C18: a movement step never leaves the car behind the position it
\* started the step from.
C18_PositionNeverDecreases ==
    StepDone => StepCarNow.x >= step_in.car.x

\* The fields of a car that are frozen once it has finished
Frozen(c) == <<c.x, c.lane, c.finish_time, c.finished>>

\* reset_game replaces self.cars
ResetsCars == MainLeaves("joined") /\ mpc' = "reset_menu"

\* C19: a finished car keeps its x, lane, finish_time and finished flag in
\* every step that is not the reset, and the player-input call in which the
\* player car finishes leaves the car in the lane it was in.
C19_FinishedCarIsFrozen ==
    [][/\ \A i \in CarIds :
            cars[Cur][i].finished /\ ~ResetsCars
                => Frozen(cars'[Cur][i]) = Frozen(cars[Cur][i])
       /\ ~cars[Cur][0].finished /\ cars'[Cur][0].finished
                => cars'[Cur][0].lane = cars[Cur][0].lane]_vars

\* The obstacles and the pickups that a step switches off
SwitchedOff(old, new) == {k \in DOMAIN old : old[k].active /\ ~new[k].active}

\* What a pickup changes in a car
Effects(c) == <<c.current_speed, c.hasSpeedBoost, c.speedBoostTimer,
                c.hasShield, c.shieldTimer>>

\* A committed step of distance move took car c to d: the car pays half the
\* distance once for each obstacle the step switched off and nothing for any
\* other obstacle, and keeps its effects unless the step consumed a pickup
OnlyActiveOnesCount(c, d, move) ==
    /\ d.x = c.x + move
                - (IF c.hasShield THEN 0
                   ELSE Cardinality(SwitchedOff(obstacles, obstacles')) * (move \div 2))
    /\ SwitchedOff(powerups, powerups') = {} => Effects(d) = Effects(c)

\* C20: outside the reset an inactive obstacle or pickup stays inactive, and
\* a committed step of a worker or of the player is affected only by the
\* obstacles and pickups that were active before it and are inactive after it.
C20_OneShot ==
    [][/\ ~ResetsCars =>
            /\ \A k \in DOMAIN obstacles : ~obstacles[k].active => ~obstacles'[k].active
            /\ \A k \in DOMAIN powerups : ~powerups[k].active => ~powerups'[k].active
       /\ \A b \in Banks, i \in AI :
            Commits(b, i) /\ thr'[b][i].pc = "loop"
                => OnlyActiveOnesCount(cars[b][i], cars'[b][i], thr[b][i].move)
       /\ MainLeaves("player_lock") /\ mpc' = "idle"
            => \/ /\ cars'[Cur][0].x = cars[Cur][0].x
                  /\ obstacles' = obstacles /\ powerups' = powerups
               \/ OnlyActiveOnesCount(cars[Cur][0], cars'[Cur][0],
                                      cars[Cur][0].current_speed * 3)]_vars

\* The AI car has made one full step through the place of the obstacle, which
\* another car had switched off before
C20_Witness ==
    /\ ~obstacles[1].active
    /\ cars[Cur][1].x = Px2(START_X) + Px2(BASE_SPEED)
    /\ ~cars[Cur][1].hasShield
    /\ CollideRect(GetRectX(cars[Cur][1]), cars[Cur][1].lane, obstacles[1],
                   OBSTACLE_SIZE)

\* C21: while reset_game has not cleared it, a declared winner means that the
\* phase is "finished".
C21_WinnerMeansFinished ==
    winner # None /\ mpc # "reset_menu" => game_state = "finished"

\* A call of toggle_pause or of reset_game (or the shutdown, which runs the
\* same statements) is in progress, or the process has ended
InToggleOrReset ==
    mpc \in {"toggle_check", "toggle_event", "toggle_paused", "toggle_racing",
             "stop_event", "join", "joined", "reset_menu", "exited"}

\* C22: while neither toggle_pause nor reset_game is running, the event is
\* cleared exactly when the phase is "paused".
C22_GateAgreesWithPhase ==
    ~InToggleOrReset => (~pause_event <=> game_state = "paused")

\* The race of the cars of self.cars is over: every AI car has finished and
\* its worker has left the loop, a winner is declared and the phase is
\* "finished"
RaceComplete ==
    /\ \A i \in AI : cars[Cur][i].finished /\ ~Alive(thr[Cur][i])
    /\ winner # None
    /\ game_state = "finished"

\* P or R (or the closing of the window) has just been taken up
PauseOrResetIssued == mpc \in {"toggle_check", "stop_event"}

\* C23: under fair scheduling a race that start_race has started is
\* completed, unless a pause or a reset is issued first.
C23_StartedRaceCompletes ==
    (mpc = "start_spawn") ~> (RaceComplete \/ PauseOrResetIssued)

\* A race has been run to its end with the gate open, past an obstacle that
\* was hit on the way
C23_Witness ==
    /\ RaceComplete
    /\ mpc = "idle"
    /\ pause_event
    /\ race_active
    /\ \E k \in DOMAIN obstacles : ~obstacles[k].active

====
